---- MODULE Spec2Model ----
(***************************************************************************)
(* MicroOS (Components/MicroOS/src/MicroOS.c): a cooperative, tick-driven  *)
(* kernel with a task table, a delay pool and an event pool.               *)
(*                                                                         *)
(* The main context (main() before MicroOS_StartScheduler, and every task  *)
(* callback and event handler the scheduler invokes) calls the API; the    *)
(* tick interrupt calls MicroOS_TickHandler.  An API call made by the main *)
(* context is one action.  The scheduler is a process: pc is its position, *)
(* and while a callback or handler runs (pc = "taskcb" / "evhandler") the  *)
(* main context may make any API calls and ticks may arrive.               *)
(***************************************************************************)
EXTENDS Integers, Sequences, FiniteSets, TLC

(***************************************************************************)
(* Sizes.  The header sets the three pool sizes to 10 and the counters are *)
(* 32, 16 and 8 bits wide; the model keeps the structure and scales the    *)
(* sizes down.                                                             *)
(***************************************************************************)
\* MICROOS_TASK_SIZE (include/MicroOS.h:38, 10 there)
MICROOS_TASK_SIZE == 2
\* OS_DELAY_POOLSIZE (include/MicroOS.h:39, 10 there)
OS_DELAY_POOLSIZE == 2
\* OS_EVENT_POOLSIZE (include/MicroOS.h:40, 10 there)
OS_EVENT_POOLSIZE == 2
\* range of the uint32_t tick counter and of the tick arithmetic (2^32 there)
TickWrap == 3
\* range of the uint16_t TriggerCount (2^16 there)
TrigWrap == 3
\* range of the uint8_t TaskNum (2^8 there); larger than MICROOS_TASK_SIZE + 1
NumWrap == 5
\* largest Ticks argument of MicroOS_OSdelay
MaxDelay == 2
\* largest Period argument of MicroOS_AddTask and Ticks of MicroOS_SleepTask
MaxPeriod == 2

NULL == 0

VARIABLES
    \* MicroOS (MicroOS_Task_t)
    Tasks, TickCount, TaskNum, CurrentTaskId,
    \* OSdelay (MicroOS_OSdelay_t)
    delay_pool, free_delay, active_delay,
    \* OSEvent (MicroOS_Event_t)
    EventPools, free_event, active_event, CurrentEventId, EventNum,
    \* MicroOS_StartScheduler: position, loop index i, local currentTime,
    \* and MicroOS_DispatchAllEvents' local p
    pc, i, currentTime, p,
    \* MicroOS_delay: whether the main context is inside its loop, with its
    \* local startTick and its argument Ticks; MicroOS_OSdelay: the record
    \* (node) the main context is refreshing, between the two stores
    spin,
    \* the status the last API call of the main context returned
    ret,
    \* history of the run, read by the properties only
    hist

taskvars == <<Tasks, TickCount, TaskNum, CurrentTaskId>>
delayvars == <<delay_pool, free_delay, active_delay>>
eventvars == <<EventPools, free_event, active_event, CurrentEventId, EventNum>>
schedvars == <<pc, i, currentTime, p, spin>>
vars == <<Tasks, TickCount, TaskNum, CurrentTaskId,
          delay_pool, free_delay, active_delay,
          EventPools, free_event, active_event, CurrentEventId, EventNum,
          pc, i, currentTime, p, spin, ret, hist>>

\* an API call of the main context returns the status st; a void function
\* returns nothing and leaves the last status as it was
Returns(st) == IF st = "void" THEN UNCHANGED ret ELSE ret' = st

\* the main context is outside the scheduler, or inside a callback it invoked,
\* and not held in the loop of MicroOS_delay or inside MicroOS_OSdelay
MainCtx == pc \in {"main", "taskcb", "evhandler"} /\ ~spin.busy

(***************************************************************************)
(* Delay pool.  Each operation is a function of the pool d = [pool, free,  *)
(* active] (delay_pool, free_delay, active_delay) and its arguments; the   *)
(* action of the same name applies it to the variables.                    *)
(***************************************************************************)
DelayNodes == 1..OS_DELAY_POOLSIZE
\* the uint8_t ids the calls are made with: one more than the pool holds
DelayIds == 0..OS_DELAY_POOLSIZE

\* memset(tmp, 0, sizeof(MicroOS_OSdelay_Sub_t))
ZeroDelay == [id |-> 0, ms |-> 0, IsTimeout |-> FALSE, next |-> NULL]

OSdelay == [pool |-> delay_pool, free |-> free_delay, active |-> active_delay]

\* the nodes a walk from head along next visits, in order
RECURSIVE Walk(_, _, _)
Walk(pool, head, fuel) ==
    IF head = NULL \/ fuel = 0 THEN <<>>
    ELSE <<head>> \o Walk(pool, pool[head].next, fuel - 1)

ActiveDelays(d) == Walk(d.pool, d.active, OS_DELAY_POOLSIZE + 1)
FreeDelays(d) == Walk(d.pool, d.free, OS_DELAY_POOLSIZE + 1)

\* the first of the positions hit of a walk, or 0 when there is none
FirstPos(hit) ==
    IF hit = {} THEN 0 ELSE CHOOSE k \in hit : \A m \in hit : k <= m

\* the positions in the walk w of the pool's nodes that hold id
HoldId(pool, w, id) == {k \in 1..Len(w) : pool[w[k]].id = id}

\* while (p) { if (p->id == id) ...; p = p->next; }: the first node with id
FindDelay(d, id) ==
    LET k == FirstPos(HoldId(d.pool, ActiveDelays(d), id))
    IN  IF k = 0 THEN NULL ELSE ActiveDelays(d)[k]

\* *pp = (*pp)->next for the node at position k of the walk w from head,
\* then memset(tmp, 0, ..); tmp->next = free: the pool after the unlinking
Unlink(pool, w, k, zero, free) ==
    [n \in DOMAIN pool |->
        IF n = w[k] THEN [zero EXCEPT !.next = free]
        ELSE IF k > 1 /\ n = w[k - 1] THEN [pool[n] EXCEPT !.next = pool[w[k]].next]
        ELSE pool[n]]

\* the relinking loop of MicroOS_OSdelay_Init and MicroOS_OSEvent_Init
Relink(pool, size) ==
    [n \in DOMAIN pool |->
        [pool[n] EXCEPT !.next = IF n < size THEN n + 1 ELSE NULL]]

OSdelay_Init(d) ==
    [pool |-> Relink(d.pool, OS_DELAY_POOLSIZE), free |-> 1, active |-> NULL]

\* a faulty MicroOS_OSdelay, allocating without looking for an active record
OSdelay_Add_NoLookup(d, id, Ticks) ==
    IF d.free = NULL
    THEN [st |-> "MICROOS_BUSY", d |-> d]
    ELSE LET node == d.free IN
         [st |-> "MICROOS_OK",
          d |-> [pool |-> [d.pool EXCEPT ![node] =
                              [id |-> id, ms |-> Ticks, IsTimeout |-> FALSE,
                               next |-> d.active]],
                 free |-> d.pool[node].next,
                 active |-> node]]

\* MicroOS_OSdelay: the status returned and the pool left
OSdelay_Add(d, id, Ticks) ==
    LET q == FindDelay(d, id) IN
    IF q # NULL
    THEN [st |-> "MICROOS_OK",
          d |-> [d EXCEPT !.pool[q].ms = Ticks, !.pool[q].IsTimeout = FALSE]]
    ELSE IF d.free = NULL
    THEN [st |-> "MICROOS_BUSY", d |-> d]
    ELSE LET node == d.free IN
         [st |-> "MICROOS_OK",
          d |-> [pool |-> [d.pool EXCEPT ![node] =
                              [id |-> id, ms |-> Ticks, IsTimeout |-> FALSE,
                               next |-> d.active]],
                 free |-> d.pool[node].next,
                 active |-> node]]

\* bool MicroOS_OSdelayDone(id): a query, it changes nothing
OSdelayDone(d, id) ==
    LET q == FindDelay(d, id) IN
    IF q # NULL THEN d.pool[q].IsTimeout ELSE FALSE

\* a faulty tick step, raising the flag one notification after ms reached 0
TickNode_Late(n) ==
    IF n.ms > 0 THEN [n EXCEPT !.ms = n.ms - 1] ELSE [n EXCEPT !.IsTimeout = TRUE]

\* one node's step of MicroOS_OSdelay_Tick
TickNode(n) ==
    IF n.ms > 0
    THEN [n EXCEPT !.ms = n.ms - 1,
                   !.IsTimeout = IF n.ms - 1 = 0 THEN TRUE ELSE n.IsTimeout]
    ELSE n

OSdelay_Tick(d) ==
    LET w == ActiveDelays(d)
        act == {w[k] : k \in 1..Len(w)}
    IN  [d EXCEPT !.pool = [n \in DelayNodes |->
                              IF n \in act THEN TickNode(d.pool[n]) ELSE d.pool[n]]]

\* a faulty remove, unlinking the record without giving its node back
OSdelay_Remove_Leak(d, id) ==
    LET w == ActiveDelays(d)
        k == FirstPos(HoldId(d.pool, w, id))
    IN  IF k = 0 THEN d
        ELSE [pool |-> Unlink(d.pool, w, k, ZeroDelay, d.free),
              free |-> d.free,
              active |-> IF k = 1 THEN d.pool[w[k]].next ELSE d.active]

OSdelay_Remove(d, id) ==
    LET w == ActiveDelays(d)
        k == FirstPos(HoldId(d.pool, w, id))
    IN  IF k = 0 THEN d
        ELSE [pool |-> Unlink(d.pool, w, k, ZeroDelay, d.free),
              free |-> w[k],
              active |-> IF k = 1 THEN d.pool[w[k]].next ELSE d.active]

SetDelay(d) ==
    /\ delay_pool' = d.pool
    /\ free_delay' = d.free
    /\ active_delay' = d.active

MicroOS_OSdelay(id, Ticks) ==
    /\ MainCtx
    /\ SetDelay(OSdelay_Add(OSdelay, id, Ticks).d)
    /\ Returns(OSdelay_Add(OSdelay, id, Ticks).st)
    /\ UNCHANGED <<taskvars, eventvars, schedvars>>

MicroOS_OSdelay_Remove(id) ==
    /\ MainCtx
    /\ SetDelay(OSdelay_Remove(OSdelay, id))
    /\ Returns("void")
    /\ UNCHANGED <<taskvars, eventvars, schedvars>>

MicroOS_OSdelayDone(id) == OSdelayDone(OSdelay, id)

\* the tick interrupt: it may arrive between any two steps of the main context
MicroOS_TickHandler ==
    /\ TickCount' = (TickCount + 1) % TickWrap
    /\ SetDelay(OSdelay_Tick(OSdelay))
    /\ UNCHANGED <<Tasks, TaskNum, CurrentTaskId, eventvars, schedvars, ret>>

(***************************************************************************)
(* Event pool.  Each operation is a function of the pool e = [pool, free,  *)
(* active, cur, num] (EventPools, free_event, active_event,                *)
(* CurrentEventId, EventNum) and its arguments.                            *)
(***************************************************************************)
EventNodes == 1..OS_EVENT_POOLSIZE
\* the uint8_t ids the calls are made with: one more than the pool holds
EventIds == 0..OS_EVENT_POOLSIZE
\* handlers (NULL is no handler) and user data pointers
EventFns == {1, 2}
EventData == {0, 1}

\* memset(tmp, 0, sizeof(MicroOS_Event_Sub_t))
ZeroEvent == [id |-> 0, IsRunning |-> FALSE, IsUsed |-> FALSE, TriggerCount |-> 0,
              EventFunction |-> NULL, Userdata |-> NULL, next |-> NULL]

OSEvent == [pool |-> EventPools, free |-> free_event, active |-> active_event,
            cur |-> CurrentEventId, num |-> EventNum]

ActiveEvents(e) == Walk(e.pool, e.active, OS_EVENT_POOLSIZE + 1)
FreeEvents(e) == Walk(e.pool, e.free, OS_EVENT_POOLSIZE + 1)

FindEvent(e, id) ==
    LET k == FirstPos(HoldId(e.pool, ActiveEvents(e), id))
    IN  IF k = 0 THEN NULL ELSE ActiveEvents(e)[k]

OSEvent_Init(e) ==
    [e EXCEPT !.pool = Relink(e.pool, OS_EVENT_POOLSIZE),
              !.active = NULL, !.free = 1]

\* a faulty register, allocating without looking for an active record of id
RegisterEvent_NoLookup(e, id, EventFunction, Userdata) ==
    IF EventFunction = NULL
    THEN [st |-> "MICROOS_ERROR", e |-> e]
    ELSE IF e.free = NULL
    THEN [st |-> "MICROOS_BUSY", e |-> e]
    ELSE LET node == e.free IN
         [st |-> "MICROOS_OK",
          e |-> [e EXCEPT !.num = (@ + 1) % NumWrap,
                          !.free = e.pool[node].next,
                          !.pool[node] =
                              [id |-> id, IsRunning |-> TRUE, IsUsed |-> TRUE,
                               TriggerCount |-> 0, EventFunction |-> EventFunction,
                               Userdata |-> Userdata, next |-> e.active],
                          !.active = node]]

\* MicroOS_RegisterEvent: the status returned and the pool left
RegisterEvent(e, id, EventFunction, Userdata) ==
    IF EventFunction = NULL
    THEN [st |-> "MICROOS_ERROR", e |-> e]
    ELSE LET q == FindEvent(e, id) IN
    IF q # NULL
    THEN [st |-> "MICROOS_OK",
          e |-> [e EXCEPT !.pool[q] =
                    [@ EXCEPT !.EventFunction = EventFunction, !.IsRunning = TRUE,
                              !.Userdata = Userdata, !.TriggerCount = 0,
                              !.IsUsed = TRUE]]]
    ELSE IF e.free = NULL
    THEN [st |-> "MICROOS_BUSY", e |-> e]
    ELSE LET node == e.free IN
         [st |-> "MICROOS_OK",
          e |-> [e EXCEPT !.num = (@ + 1) % NumWrap,
                          !.free = e.pool[node].next,
                          !.pool[node] =
                              [id |-> id, IsRunning |-> TRUE, IsUsed |-> TRUE,
                               TriggerCount |-> 0, EventFunction |-> EventFunction,
                               Userdata |-> Userdata, next |-> e.active],
                          !.active = node]]

DeleteEvent(e, id) ==
    LET w == ActiveEvents(e)
        k == FirstPos(HoldId(e.pool, w, id))
    IN  IF k = 0 THEN e
        ELSE [e EXCEPT !.num = (@ - 1) % NumWrap,
                       !.pool = Unlink(e.pool, w, k, ZeroEvent, e.free),
                       !.free = w[k],
                       !.active = IF k = 1 THEN e.pool[w[k]].next ELSE @]

TriggerEvent(e, id) ==
    LET w == ActiveEvents(e)
        k == FirstPos({j \in HoldId(e.pool, w, id) :
                          e.pool[w[j]].IsUsed /\ e.pool[w[j]].IsRunning})
    IN  IF k # 0
        THEN [st |-> "MICROOS_OK",
              e |-> [e EXCEPT !.pool[w[k]].TriggerCount = (@ + 1) % TrigWrap]]
        ELSE [st |-> "MICROOS_ERROR", e |-> e]

\* MicroOS_SuspendEvent (run = FALSE) and MicroOS_ResumeEvent (run = TRUE)
SetEventRunning(e, id, run) ==
    LET q == FindEvent(e, id) IN
    IF q # NULL
    THEN [st |-> "MICROOS_OK", e |-> [e EXCEPT !.pool[q].IsRunning = run]]
    ELSE [st |-> "MICROOS_ERROR", e |-> e]

SetEvent(e) ==
    /\ EventPools' = e.pool
    /\ free_event' = e.free
    /\ active_event' = e.active
    /\ CurrentEventId' = e.cur
    /\ EventNum' = e.num

\* an event call of the main context with result r = [st, e]
EventCall(r) ==
    /\ MainCtx
    /\ SetEvent(r.e)
    /\ Returns(r.st)
    /\ UNCHANGED <<taskvars, delayvars, schedvars>>

MicroOS_RegisterEvent(id, EventFunction, Userdata) ==
    EventCall(RegisterEvent(OSEvent, id, EventFunction, Userdata))

MicroOS_DeleteEvent(id) ==
    EventCall([st |-> "void", e |-> DeleteEvent(OSEvent, id)])

MicroOS_TriggerEvent(id) == EventCall(TriggerEvent(OSEvent, id))

MicroOS_SuspendEvent(id) ==
    EventCall(SetEventRunning(OSEvent, id, FALSE))

MicroOS_ResumeEvent(id) ==
    EventCall(SetEventRunning(OSEvent, id, TRUE))

\* the test of MicroOS_DispatchAllEvents on the node p points to
EventReady(n) == n.IsUsed /\ n.IsRunning /\ n.TriggerCount > 0

\* MicroOS_DispatchAllEvents, one node per step: the loop ends (and the task
\* loop starts), or the node's handler is invoked, or the node is passed over
MicroOS_DispatchAllEvents ==
    /\ pc = "dispatch"
    /\ IF p = NULL
       THEN /\ pc' = "tasks"
            /\ i' = 0
            /\ UNCHANGED <<p, CurrentEventId>>
       ELSE IF EventReady(EventPools[p])
       THEN /\ CurrentEventId' = EventPools[p].id
            /\ pc' = "evhandler"
            /\ UNCHANGED <<p, i>>
       ELSE /\ p' = EventPools[p].next
            /\ UNCHANGED <<pc, i, CurrentEventId>>
    /\ UNCHANGED <<EventPools, free_event, active_event, EventNum, currentTime, spin>>
    /\ UNCHANGED <<taskvars, delayvars, ret>>

\* the handler returns: p->TriggerCount--; p = p->next;
EventHandlerReturn ==
    /\ pc = "evhandler" /\ ~spin.busy
    /\ EventPools' = [EventPools EXCEPT ![p].TriggerCount = (@ - 1) % TrigWrap]
    /\ p' = EventPools[p].next
    /\ pc' = "dispatch"
    /\ UNCHANGED <<free_event, active_event, CurrentEventId, EventNum, i, currentTime, spin>>
    /\ UNCHANGED <<taskvars, delayvars, ret>>

(***************************************************************************)
(* Task table.  Each operation is a function of the kernel object          *)
(* m = [Tasks, TickCount, TaskNum, CurrentTaskId] and its arguments.       *)
(***************************************************************************)
TaskSlots == 0..(MICROOS_TASK_SIZE - 1)
\* the uint8_t ids the calls are made with: the slots and one id out of range
TaskIds == 0..MICROOS_TASK_SIZE
\* task functions (NULL is none) and user data pointers
TaskFns == {1}
TaskData == {0, 1}

\* memset(&Tasks[id], 0, sizeof(MicroOS_Task_Sub_t))
ZeroTask == [IsUsed |-> FALSE, IsRunning |-> FALSE, IsSleeping |-> FALSE,
             SleepTicks |-> 0, Period |-> 0, LastRunTime |-> 0,
             TaskFunction |-> NULL, Userdata |-> NULL]

MicroOS == [Tasks |-> Tasks, TickCount |-> TickCount, TaskNum |-> TaskNum,
            CurrentTaskId |-> CurrentTaskId]

\* MICROOS_CHECK_ID
BadId(id) == id >= MICROOS_TASK_SIZE

\* a faulty subtraction, without the wrap of the unsigned type
Elapsed_NoWrap(now, last) == now - last

\* uint32_t subtraction: currentTime - LastRunTime
Elapsed(now, last) == (now - last) % TickWrap

\* a faulty add, counting the task before it looks at the callback
AddTask_CountFirst(m, id, TaskFunction, Userdata, Period) ==
    IF BadId(id) THEN [st |-> "MICROOS_INVALID_PARAM", m |-> m]
    ELSE IF TaskFunction = NULL
    THEN [st |-> "MICROOS_ERROR", m |-> [m EXCEPT !.TaskNum = (@ + 1) % NumWrap]]
    ELSE IF m.TaskNum > MICROOS_TASK_SIZE THEN [st |-> "MICROOS_ERROR", m |-> m]
    ELSE [st |-> "MICROOS_OK",
          m |-> [m EXCEPT !.TaskNum = (@ + 1) % NumWrap,
                          !.Tasks[id] =
                              [@ EXCEPT !.TaskFunction = TaskFunction,
                                        !.Userdata = Userdata,
                                        !.Period = Period, !.LastRunTime = 0,
                                        !.IsRunning = TRUE, !.IsUsed = TRUE,
                                        !.IsSleeping = FALSE]]]

AddTask(m, id, TaskFunction, Userdata, Period) ==
    IF BadId(id) THEN [st |-> "MICROOS_INVALID_PARAM", m |-> m]
    ELSE IF TaskFunction = NULL THEN [st |-> "MICROOS_ERROR", m |-> m]
    ELSE IF m.TaskNum > MICROOS_TASK_SIZE THEN [st |-> "MICROOS_ERROR", m |-> m]
    ELSE [st |-> "MICROOS_OK",
          m |-> [m EXCEPT !.TaskNum = (@ + 1) % NumWrap,
                          !.Tasks[id] =
                              [@ EXCEPT !.TaskFunction = TaskFunction,
                                        !.Userdata = Userdata,
                                        !.Period = Period, !.LastRunTime = 0,
                                        !.IsRunning = TRUE, !.IsUsed = TRUE,
                                        !.IsSleeping = FALSE]]]

\* a faulty delete, releasing the slot without clearing what it holds
DeleteTask_KeepFields(m, id) ==
    IF BadId(id) THEN [st |-> "MICROOS_INVALID_PARAM", m |-> m]
    ELSE [st |-> "MICROOS_OK",
          m |-> [m EXCEPT !.TaskNum = IF m.Tasks[id].IsRunning
                                      THEN (@ - 1) % NumWrap ELSE @,
                          !.Tasks[id].IsUsed = FALSE,
                          !.Tasks[id].IsRunning = FALSE]]

\* a faulty suspend/resume, leaving the task running whatever is asked
SetTaskRunning_Ignored(m, id, run) ==
    IF BadId(id) THEN [st |-> "MICROOS_INVALID_PARAM", m |-> m]
    ELSE IF ~m.Tasks[id].IsUsed THEN [st |-> "MICROOS_NOT_INITIALIZED", m |-> m]
    ELSE [st |-> "MICROOS_OK", m |-> [m EXCEPT !.Tasks[id].IsRunning = TRUE]]

\* MicroOS_SuspendTask (run = FALSE) and MicroOS_ResumeTask (run = TRUE)
SetTaskRunning(m, id, run) ==
    IF BadId(id) THEN [st |-> "MICROOS_INVALID_PARAM", m |-> m]
    ELSE IF ~m.Tasks[id].IsUsed THEN [st |-> "MICROOS_NOT_INITIALIZED", m |-> m]
    ELSE [st |-> "MICROOS_OK", m |-> [m EXCEPT !.Tasks[id].IsRunning = run]]

SuspendTask(m, id) == SetTaskRunning(m, id, FALSE)

ResumeTask(m, id) == SetTaskRunning(m, id, TRUE)

\* a faulty delete, taking every used slot off the counter
DeleteTask_CountUsed(m, id) ==
    IF BadId(id) THEN [st |-> "MICROOS_INVALID_PARAM", m |-> m]
    ELSE [st |-> "MICROOS_OK",
          m |-> [m EXCEPT !.TaskNum = IF m.Tasks[id].IsUsed
                                      THEN (@ - 1) % NumWrap ELSE @,
                          !.Tasks[id] = ZeroTask]]

DeleteTask(m, id) ==
    IF BadId(id) THEN [st |-> "MICROOS_INVALID_PARAM", m |-> m]
    ELSE [st |-> "MICROOS_OK",
          m |-> [m EXCEPT !.TaskNum = IF m.Tasks[id].IsRunning
                                      THEN (@ - 1) % NumWrap ELSE @,
                          !.Tasks[id] = ZeroTask]]

SleepTask(m, id, Ticks) ==
    IF BadId(id) THEN [st |-> "MICROOS_INVALID_PARAM", m |-> m]
    ELSE IF Ticks = 0 THEN [st |-> "MICROOS_INVALID_PARAM", m |-> m]
    ELSE IF ~m.Tasks[id].IsUsed THEN [st |-> "MICROOS_NOT_INITIALIZED", m |-> m]
    ELSE [st |-> "MICROOS_OK",
          m |-> [m EXCEPT !.Tasks[id] =
                    [@ EXCEPT !.IsSleeping = TRUE, !.SleepTicks = Ticks,
                              !.LastRunTime = m.TickCount]]]

\* a faulty wakeup that clears the sleep only once its duration has elapsed
WakeupTask_WhenElapsed(m, id) ==
    IF BadId(id) THEN [st |-> "MICROOS_INVALID_PARAM", m |-> m]
    ELSE IF ~m.Tasks[id].IsUsed THEN [st |-> "MICROOS_NOT_INITIALIZED", m |-> m]
    ELSE [st |-> "MICROOS_OK",
          m |-> IF Elapsed(m.TickCount, m.Tasks[id].LastRunTime) >= m.Tasks[id].SleepTicks
                THEN [m EXCEPT !.Tasks[id] =
                         [@ EXCEPT !.IsSleeping = FALSE, !.SleepTicks = 0]]
                ELSE m]

WakeupTask(m, id) ==
    IF BadId(id) THEN [st |-> "MICROOS_INVALID_PARAM", m |-> m]
    ELSE IF ~m.Tasks[id].IsUsed THEN [st |-> "MICROOS_NOT_INITIALIZED", m |-> m]
    ELSE [st |-> "MICROOS_OK",
          m |-> [m EXCEPT !.Tasks[id] =
                    [@ EXCEPT !.IsSleeping = FALSE, !.SleepTicks = 0]]]

SetMicroOS(m) ==
    /\ Tasks' = m.Tasks
    /\ TickCount' = m.TickCount
    /\ TaskNum' = m.TaskNum
    /\ CurrentTaskId' = m.CurrentTaskId

\* a task call of the main context with result r = [st, m]
TaskCall(r) ==
    /\ MainCtx
    /\ SetMicroOS(r.m)
    /\ Returns(r.st)
    /\ UNCHANGED <<delayvars, eventvars, schedvars>>

MicroOS_AddTask(id, TaskFunction, Userdata, Period) ==
    TaskCall(AddTask(MicroOS, id, TaskFunction, Userdata, Period))

MicroOS_SuspendTask(id) == TaskCall(SuspendTask(MicroOS, id))

MicroOS_ResumeTask(id) == TaskCall(ResumeTask(MicroOS, id))

MicroOS_DeleteTask(id) == TaskCall(DeleteTask(MicroOS, id))

MicroOS_SleepTask(id, Ticks) == TaskCall(SleepTask(MicroOS, id, Ticks))

MicroOS_WakeupTask(id) == TaskCall(WakeupTask(MicroOS, id))

MicroOS_Init ==
    /\ MainCtx
    /\ TaskNum' = 0
    /\ TickCount' = 0
    /\ CurrentTaskId' = 0
    /\ SetDelay(OSdelay_Init(OSdelay))
    /\ SetEvent(OSEvent_Init(OSEvent))
    /\ Returns("MICROOS_OK")
    /\ UNCHANGED <<Tasks, schedvars>>

(***************************************************************************)
(* Scheduler                                                               *)
(***************************************************************************)
\* main() calls MicroOS_StartScheduler, which never returns: the first pass
\* starts with MicroOS_DispatchAllEvents
MicroOS_StartScheduler ==
    /\ pc = "main" /\ ~spin.busy
    /\ pc' = "dispatch"
    /\ p' = active_event
    /\ UNCHANGED <<i, currentTime, spin, taskvars, delayvars, eventvars, ret>>

\* the slot after the sleep-expiry check of the task loop
AfterSleepCheck(t, now) ==
    IF t.IsSleeping /\ Elapsed(now, t.LastRunTime) >= t.SleepTicks
    THEN [t EXCEPT !.IsSleeping = FALSE, !.SleepTicks = 0]
    ELSE t

\* the due-check of the task loop
Due(t, now) == Elapsed(now, t.LastRunTime) >= t.Period

\* one iteration of the task loop: the loop ends (and the next pass starts
\* with the dispatch), or slot i is evaluated at the clock value read for it
\* and its callback invoked when it is due
SchedulerTaskStep ==
    /\ pc = "tasks"
    /\ IF i >= MICROOS_TASK_SIZE
       THEN /\ pc' = "dispatch"
            /\ p' = active_event
            /\ UNCHANGED <<i, currentTime, Tasks, CurrentTaskId>>
       ELSE IF ~Tasks[i].IsUsed \/ ~Tasks[i].IsRunning
       THEN /\ i' = i + 1
            /\ UNCHANGED <<pc, p, currentTime, Tasks, CurrentTaskId>>
       ELSE LET t == AfterSleepCheck(Tasks[i], TickCount) IN
            /\ currentTime' = TickCount
            /\ Tasks' = [Tasks EXCEPT ![i] = t]
            /\ IF ~t.IsSleeping /\ Due(t, TickCount)
               THEN /\ CurrentTaskId' = i
                    /\ pc' = "taskcb"
                    /\ UNCHANGED <<i, p>>
               ELSE /\ i' = i + 1
                    /\ UNCHANGED <<pc, p, CurrentTaskId>>
    /\ UNCHANGED <<TickCount, TaskNum, spin, delayvars, eventvars, ret>>

\* a faulty return from a callback, taking the task loop up from slot 0 again
TaskReturn_Restart ==
    /\ pc = "taskcb" /\ ~spin.busy
    /\ Tasks' = [Tasks EXCEPT ![i].LastRunTime = currentTime]
    /\ i' = 0
    /\ pc' = "tasks"
    /\ UNCHANGED <<TickCount, TaskNum, CurrentTaskId, currentTime, p, spin>>
    /\ UNCHANGED <<delayvars, eventvars, ret>>

\* a faulty return from a callback, storing the clock value at the return
TaskReturn_ClockAtReturn ==
    /\ pc = "taskcb" /\ ~spin.busy
    /\ Tasks' = [Tasks EXCEPT ![i].LastRunTime = TickCount]
    /\ i' = i + 1
    /\ pc' = "tasks"
    /\ UNCHANGED <<TickCount, TaskNum, CurrentTaskId, currentTime, p, spin>>
    /\ UNCHANGED <<delayvars, eventvars, ret>>

\* a faulty return from a callback, leaving LastRunTime as it is
TaskReturn_NoStore ==
    /\ pc = "taskcb" /\ ~spin.busy
    /\ i' = i + 1
    /\ pc' = "tasks"
    /\ UNCHANGED <<taskvars, currentTime, p, spin>>
    /\ UNCHANGED <<delayvars, eventvars, ret>>

\* the callback returns: Tasks[i].LastRunTime = currentTime; and i++
TaskReturn ==
    /\ pc = "taskcb" /\ ~spin.busy
    /\ Tasks' = [Tasks EXCEPT ![i].LastRunTime = currentTime]
    /\ i' = i + 1
    /\ pc' = "tasks"
    /\ UNCHANGED <<TickCount, TaskNum, CurrentTaskId, currentTime, p, spin>>
    /\ UNCHANGED <<delayvars, eventvars, ret>>

\* the main context is inside neither MicroOS_delay nor MicroOS_OSdelay
NoSpin == [busy |-> FALSE, startTick |-> 0, Ticks |-> 0, node |-> NULL]

\* MicroOS_delay(Ticks), called by the main context: MICROOS_INVALID_PARAM at
\* once for Ticks = 0, else the clock is captured and the loop entered
MicroOS_delay(Ticks) ==
    /\ MainCtx
    /\ IF Ticks = 0
       THEN /\ ret' = "MICROOS_INVALID_PARAM"
            /\ UNCHANGED spin
       ELSE /\ spin' = [busy |-> TRUE, startTick |-> TickCount, Ticks |-> Ticks,
                        node |-> NULL]
            /\ UNCHANGED ret
    /\ UNCHANGED <<pc, i, currentTime, p, taskvars, delayvars, eventvars>>

\* a faulty loop test, leaving the loop one tick early
DelayElapsed_Early(now, start, Ticks) == Elapsed(now, start) + 1 >= Ticks

\* the loop test of MicroOS_delay, negated: the wait is over
DelayElapsed(now, start, Ticks) == ~(Elapsed(now, start) < Ticks)

\* one evaluation of while ((TickCount - startTick) < Ticks) {}: the loop goes
\* round, or it ends and MicroOS_delay returns MICROOS_OK
MicroOS_delay_Loop ==
    /\ spin.busy /\ spin.node = NULL
    /\ IF DelayElapsed(TickCount, spin.startTick, spin.Ticks)
       THEN /\ spin' = NoSpin
            /\ ret' = "MICROOS_OK"
       ELSE UNCHANGED <<spin, ret>>
    /\ UNCHANGED <<pc, i, currentTime, p, taskvars, delayvars, eventvars>>

\* MicroOS_OSdelay(id, Ticks) up to the point a tick notification can make a
\* difference: with no active record of id the whole call (the node is linked
\* into the active list by its last store, so no tick sees it before); with
\* one, the store p->ms = Ticks, the store to p->IsTimeout still to come
MicroOS_OSdelay_Enter(id, Ticks) ==
    /\ MainCtx
    /\ LET q == FindDelay(OSdelay, id) IN
       IF q = NULL
       THEN /\ SetDelay(OSdelay_Add(OSdelay, id, Ticks).d)
            /\ Returns(OSdelay_Add(OSdelay, id, Ticks).st)
            /\ UNCHANGED spin
       ELSE /\ delay_pool' = [delay_pool EXCEPT ![q].ms = Ticks]
            /\ spin' = [busy |-> TRUE, startTick |-> 0, Ticks |-> Ticks, node |-> q]
            /\ UNCHANGED <<free_delay, active_delay, ret>>
    /\ UNCHANGED <<pc, i, currentTime, p, taskvars, eventvars>>

\* the rest of a refreshing MicroOS_OSdelay: p->IsTimeout = false; return
\* MICROOS_OK
MicroOS_OSdelay_Leave ==
    /\ spin.busy /\ spin.node # NULL
    /\ delay_pool' = [delay_pool EXCEPT ![spin.node].IsTimeout = FALSE]
    /\ spin' = NoSpin
    /\ ret' = "MICROOS_OK"
    /\ UNCHANGED <<pc, i, currentTime, p, free_delay, active_delay, taskvars, eventvars>>

\* the state MicroOS_Init leaves the zero-initialised statics in
InitProg ==
    /\ Tasks = [k \in TaskSlots |-> ZeroTask]
    /\ TickCount = 0
    /\ TaskNum = 0
    /\ CurrentTaskId = 0
    /\ delay_pool = Relink([k \in DelayNodes |-> ZeroDelay], OS_DELAY_POOLSIZE)
    /\ free_delay = 1
    /\ active_delay = NULL
    /\ EventPools = Relink([k \in EventNodes |-> ZeroEvent], OS_EVENT_POOLSIZE)
    /\ free_event = 1
    /\ active_event = NULL
    /\ CurrentEventId = 0
    /\ EventNum = 0
    /\ pc = "main"
    /\ i = 0
    /\ currentTime = 0
    /\ spin = NoSpin
    /\ p = NULL
    /\ ret = "MICROOS_OK"

(***************************************************************************)
(* History.  hist.armed[id] = [n, t]: the last successful MicroOS_OSdelay  *)
(* (id, n) with no MicroOS_OSdelay_Remove(id) or MicroOS_Init since, and   *)
(* the tick notifications since that call (counted up to n + 1); n = 0     *)
(* when there is none.                                                     *)
(***************************************************************************)
NoArm == [n |-> 0, t |-> 0]

\* hist.burst[id] follows one burst of triggers of event id.  ph = "trig": id
\* was registered by main() and only triggered since, n times, before the
\* scheduler started.  ph = "drain": the scheduler then started; k dispatch
\* passes have completed (counted up to n + 1) and invoked its handler inv
\* times in all.  Any other call on id, a trigger during the passes, or a
\* re-initialisation ends the following (ph = "none").
NoBurst == [ph |-> "none", n |-> 0, k |-> 0, inv |-> 0]

\* hist.reg tells what the last event calls at a full pool were: "busy" when
\* the last one was a MicroOS_RegisterEvent that returned MICROOS_BUSY, "update"
\* when that call was followed at once by one of an active id; else "none".
\* hist.since[id]: the tick notifications since the instant LastRunTime of
\* slot id refers to (the clock reading 0 for MicroOS_AddTask, the call for
\* MicroOS_SleepTask, the reading of currentTime for an invocation), counted
\* up to TickWrap, which stands for "a whole counter range or more".
\* hist.read: the same count since currentTime was last read.
\* hist.seen[id] = [on, c, t, again]: on when the callback of id has been
\* invoked since id was last added, c the clock value read for that
\* invocation, t the tick notifications since that reading (counted up to
\* TickWrap), again when an earlier invocation preceded it by fewer than
\* TickWrap notifications with no add of id in between.
\* hist.slept[id] = [n, t, w]: the last successful MicroOS_SleepTask(id, n)
\* with no wakeup, add or delete of id since, and the tick notifications since
\* that call (counted up to n); n = 0 when there is none. w holds when the
\* last of these calls was a MicroOS_WakeupTask(id) that ended a sleep before
\* its n tick notifications had occurred.
\* hist.fresh[id] = [on, P]: on when id was added with period P and has since
\* stayed used, running and not sleeping without having been invoked.
\* hist.pair = [op, id]: op = "add" when the last task call was a successful
\* MicroOS_AddTask(id, ..), "adddel" when that call was followed at once by
\* MicroOS_DeleteTask(id), else "none".
NoSleep == [n |-> 0, t |-> 0, w |-> FALSE]
\* hist.owed: the ids of the events triggered with success whose handler has
\* not been invoked since, and that have not been registered or deleted since.
NoSeen == [on |-> FALSE, c |-> 0, t |-> 0, again |-> FALSE]
NoPair == [op |-> "none", id |-> 0]
\* hist.pass follows the scheduler pass under way: disp counts the times the
\* dispatch step has completed in it (up to 2), ev the task slots evaluated
\* in it, inv is the set of slots whose callback was invoked in it.
NoPass == [disp |-> 0, ev |-> 0, inv |-> {}]
\* hist.off[id] tells what the calls made of task id: "deleted" when it was
\* deleted (or never added) and not added since, "suspended" when it was
\* suspended and neither resumed nor added again since, else "on".
NotFresh == [on |-> FALSE, P |-> 0]
\* hist.susp[id] = [on, c, hit]: on when MicroOS_SuspendEvent(id) returned
\* MICROOS_OK, at a moment the handler of id was not being invoked, and id
\* was not resumed, registered or deleted since; c is the pending count it
\* had at that call; hit when a dispatch invoked the handler of id since.
NoSusp == [on |-> FALSE, c |-> 0, hit |-> FALSE]
\* hist.spun = [n, at, t, done]: the last MicroOS_delay(n) with n > 0 was
\* called at the clock value at, t tick notifications arrived while it was
\* waiting (counted up to TickWrap), and done tells that it has returned.
NoSpun == [n |-> 0, at |-> 0, t |-> 0, done |-> FALSE]
\* hist.dup holds "delay" once a MicroOS_OSdelay of an id that was active
\* returned, and "event" once a MicroOS_RegisterEvent of an active id did.

HistInit ==
    hist = [armed |-> [id \in DelayIds |-> NoArm],
            burst |-> [id \in EventIds |-> NoBurst],
            reg |-> "none",
            since |-> [id \in TaskSlots |-> TickWrap],
            read |-> TickWrap,
            seen |-> [id \in TaskSlots |-> NoSeen],
            owed |-> {},
            slept |-> [id \in TaskSlots |-> NoSleep],
            fresh |-> [id \in TaskSlots |-> NotFresh],
            pair |-> NoPair,
            pass |-> NoPass,
            off |-> [id \in TaskSlots |-> "deleted"],
            dup |-> {},
            susp |-> [id \in EventIds |-> NoSusp],
            spun |-> NoSpun]

Init == InitProg /\ HistInit

(***************************************************************************)
(* The calls of the main context, the tick notification and the steps of   *)
(* the scheduler, for a specification that keeps no history of them.  The  *)
(* calls take the sets their arguments are drawn from.                     *)
(***************************************************************************)
Tick == MicroOS_TickHandler /\ UNCHANGED hist

InitAgain == MicroOS_Init /\ UNCHANGED hist

Start == MicroOS_StartScheduler /\ UNCHANGED hist

Dispatch == MicroOS_DispatchAllEvents /\ UNCHANGED hist

HandlerReturn == EventHandlerReturn /\ UNCHANGED hist

TaskStep == SchedulerTaskStep /\ UNCHANGED hist

CallbackReturn == TaskReturn /\ UNCHANGED hist

CallAddTask(ids, fns, Ps) ==
    \E id \in ids, fn \in fns, P \in Ps :
        MicroOS_AddTask(id, fn, 0, P) /\ UNCHANGED hist

CallSuspendTask(ids) == \E id \in ids : MicroOS_SuspendTask(id) /\ UNCHANGED hist

CallResumeTask(ids) == \E id \in ids : MicroOS_ResumeTask(id) /\ UNCHANGED hist

CallDeleteTask(ids) == \E id \in ids : MicroOS_DeleteTask(id) /\ UNCHANGED hist

CallSleepTask(ids, Ts) ==
    \E id \in ids, Ticks \in Ts : MicroOS_SleepTask(id, Ticks) /\ UNCHANGED hist

CallWakeupTask(ids) == \E id \in ids : MicroOS_WakeupTask(id) /\ UNCHANGED hist

CallOSdelay(ids, Ts) ==
    \E id \in ids, Ticks \in Ts : MicroOS_OSdelay(id, Ticks) /\ UNCHANGED hist

CallOSdelay_Remove(ids) ==
    \E id \in ids : MicroOS_OSdelay_Remove(id) /\ UNCHANGED hist

CallRegisterEvent(ids, fns) ==
    \E id \in ids, fn \in fns : MicroOS_RegisterEvent(id, fn, 0) /\ UNCHANGED hist

CallTriggerEvent(ids) == \E id \in ids : MicroOS_TriggerEvent(id) /\ UNCHANGED hist

CallDeleteEvent(ids) == \E id \in ids : MicroOS_DeleteEvent(id) /\ UNCHANGED hist

(***************************************************************************)
(* SpecDelay: the main context starts, refreshes and removes the delays of *)
(* two ids while tick notifications arrive between its calls.              *)
(***************************************************************************)
TimerIds == {0, 1}

DelayAdd ==
    \E id \in TimerIds, Ticks \in 0..MaxDelay :
        /\ MicroOS_OSdelay(id, Ticks)
        /\ hist' = [hist EXCEPT !.armed[id] =
                       IF ret' = "MICROOS_OK" THEN [n |-> Ticks, t |-> 0] ELSE @]

DelayRemove ==
    \E id \in TimerIds :
        /\ MicroOS_OSdelay_Remove(id)
        /\ hist' = [hist EXCEPT !.armed[id] = NoArm]

DelayTick ==
    /\ MicroOS_TickHandler
    /\ hist' = [hist EXCEPT !.armed =
                   [id \in DelayIds |->
                      IF @[id].t <= @[id].n /\ @[id].n > 0
                      THEN [@[id] EXCEPT !.t = @ + 1] ELSE @[id]]]

DelayReinit ==
    /\ MicroOS_Init
    /\ hist' = [hist EXCEPT !.armed = [id \in DelayIds |-> NoArm]]

SpecDelay ==
    Init /\ [][DelayAdd \/ DelayRemove \/ DelayTick \/ DelayReinit]_vars

C10_ZeroTicksRejected ==
    \A id \in DelayIds :
        /\ OSdelay_Add(OSdelay, id, 0).st = "MICROOS_INVALID_PARAM"
        /\ OSdelay_Add(OSdelay, id, 0).d = OSdelay

(***************************************************************************)
(* SpecDelayPool: the main context fills and drains the delay pool with    *)
(* one id more than it holds; the durations 0 and 1 give records that      *)
(* never expire, that are running and that have expired.                   *)
(***************************************************************************)
SpecDelayPool ==
    Init /\ [][CallOSdelay(DelayIds, {0, 1}) \/
               CallOSdelay_Remove(DelayIds) \/ Tick \/ InitAgain]_vars

\* the ids of the active records of the pool d
ActiveDelayIds(d) == {d.pool[ActiveDelays(d)[k]].id : k \in 1..Len(ActiveDelays(d))}

\* what a caller can see of the active records of d: id, remaining ticks, flag
DelayRecords(d) ==
    {[id |-> d.pool[n].id, ms |-> d.pool[n].ms, IsTimeout |-> d.pool[n].IsTimeout] :
        n \in {ActiveDelays(d)[k] : k \in 1..Len(ActiveDelays(d))}}

\* C6: with OS_DELAY_POOLSIZE distinct ids active (expired ones included),
\* MicroOS_OSdelay of a further id returns MICROOS_BUSY and leaves every
\* record as it was; after MicroOS_OSdelay_Remove of one active id, one
\* further id can be added and the next further id gets MICROOS_BUSY again.
C6_BusyWhenFullOneSlotPerRemove ==
    Cardinality(ActiveDelayIds(OSdelay)) = OS_DELAY_POOLSIZE =>
        /\ \A id \in DelayIds \ ActiveDelayIds(OSdelay), Ticks \in 1..MaxDelay :
              /\ OSdelay_Add(OSdelay, id, Ticks).st = "MICROOS_BUSY"
              /\ OSdelay_Add(OSdelay, id, Ticks).d = OSdelay
        /\ \A gone \in ActiveDelayIds(OSdelay) :
              LET d1 == OSdelay_Remove(OSdelay, gone) IN
              /\ DelayRecords(d1) = {r \in DelayRecords(OSdelay) : r.id # gone}
              /\ \A id \in DelayIds \ ActiveDelayIds(d1), Ticks \in 1..MaxDelay :
                    LET r2 == OSdelay_Add(d1, id, Ticks) IN
                    /\ r2.st = "MICROOS_OK"
                    /\ ActiveDelayIds(r2.d) = ActiveDelayIds(d1) \cup {id}
                    /\ \A more \in DelayIds \ ActiveDelayIds(r2.d) :
                          OSdelay_Add(r2.d, more, Ticks).st = "MICROOS_BUSY"

\* the pool is full, one record of it expired, and a call returned MICROOS_BUSY
C6_Witness ==
    /\ Cardinality(ActiveDelayIds(OSdelay)) = OS_DELAY_POOLSIZE
    /\ ret = "MICROOS_BUSY"
    /\ \E id \in ActiveDelayIds(OSdelay) : MicroOS_OSdelayDone(id)

Min(a, b) == IF a <= b THEN a ELSE b

(***************************************************************************)
(* SpecWrap: one task is added, put to sleep, woken, suspended, resumed    *)
(* and deleted by main() and by its own callback, while the scheduler runs *)
(* and the tick counter wraps.                                             *)
(***************************************************************************)
WrapIds == {0}

Ok(id) == ret' = "MICROOS_OK" /\ id \in TaskSlots

WrapAdd ==
    \E id \in WrapIds, fn \in TaskFns, P \in 0..MaxPeriod :
        /\ MicroOS_AddTask(id, fn, 0, P)
        /\ hist' = IF Ok(id) THEN [hist EXCEPT !.since[id] = TickCount] ELSE hist

WrapSleep ==
    \E id \in WrapIds, Ticks \in 0..MaxPeriod :
        /\ MicroOS_SleepTask(id, Ticks)
        /\ hist' = IF Ok(id) THEN [hist EXCEPT !.since[id] = 0] ELSE hist

WrapTick ==
    /\ MicroOS_TickHandler
    /\ hist' = [hist EXCEPT !.since = [id \in TaskSlots |-> Min(@[id] + 1, TickWrap)],
                            !.read = Min(@ + 1, TickWrap)]

WrapTaskStep ==
    /\ SchedulerTaskStep
    /\ hist' = IF i < MICROOS_TASK_SIZE /\ Tasks[i].IsUsed /\ Tasks[i].IsRunning
               THEN [hist EXCEPT !.read = 0] ELSE hist

WrapTaskReturn ==
    /\ TaskReturn
    /\ hist' = [hist EXCEPT !.since[i] = hist.read]

SpecWrap ==
    Init /\ [][WrapAdd \/ WrapSleep \/ CallWakeupTask(WrapIds) \/
               CallSuspendTask(WrapIds) \/ CallResumeTask(WrapIds) \/
               CallDeleteTask(WrapIds) \/ WrapTick \/ Start \/ Dispatch \/
               WrapTaskStep \/ WrapTaskReturn]_vars

\* C5: the sleep-expiry check and the due-check see the tick notifications
\* that occurred since the instant LastRunTime refers to, also when the
\* counter wrapped in between (fewer than TickWrap notifications): a sleeping
\* slot is woken exactly when that count has reached SleepTicks, and the
\* callback is invoked exactly when the slot is then awake and the count has
\* reached Period.
C5_WrapSafeElapsed ==
    [][(/\ SchedulerTaskStep
        /\ i < MICROOS_TASK_SIZE
        /\ Tasks[i].IsUsed /\ Tasks[i].IsRunning
        /\ hist.since[i] < TickWrap)
       => LET e == hist.since[i]
              awake == ~Tasks[i].IsSleeping \/ e >= Tasks[i].SleepTicks
          IN  /\ Tasks'[i].IsSleeping = ~awake
              /\ (pc' = "taskcb") <=> (awake /\ e >= Tasks[i].Period)]_vars

\* a callback is being invoked whose period (> 0) has just been reached, at a
\* clock value below LastRunTime: the counter wrapped in between
C5_Witness ==
    /\ pc = "taskcb"
    /\ Tasks[i].IsUsed /\ Tasks[i].IsRunning /\ ~Tasks[i].IsSleeping
    /\ Tasks[i].Period > 0
    /\ hist.read = 0
    /\ hist.since[i] = Tasks[i].Period
    /\ currentTime < Tasks[i].LastRunTime
    /\ Tasks[i].LastRunTime = TickWrap - 1

(***************************************************************************)
(* SpecSched: main() and every callback the scheduler invokes add, put to  *)
(* sleep, wake, suspend, resume and delete tasks (of every id, one out of  *)
(* range included) while tick notifications arrive.                        *)
(***************************************************************************)
\* the ids the calls are made with: task 0 and the id out of range
SchedIds == {0, MICROOS_TASK_SIZE}

SchedAdd ==
    \E id \in SchedIds, fn \in TaskFns \cup {NULL}, P \in 0..MaxPeriod :
        /\ MicroOS_AddTask(id, fn, 0, P)
        /\ hist' = IF Ok(id)
                   THEN [hist EXCEPT !.fresh[id] = [on |-> TRUE, P |-> P],
                                     !.slept[id] = NoSleep]
                   ELSE hist

SchedSleep ==
    \E id \in SchedIds, Ticks \in 0..MaxPeriod :
        /\ MicroOS_SleepTask(id, Ticks)
        /\ hist' = IF Ok(id)
                   THEN [hist EXCEPT !.fresh[id] = NotFresh,
                                     !.slept[id] = [n |-> Ticks, t |-> 0, w |-> FALSE]]
                   ELSE hist

SchedWakeup ==
    \E id \in SchedIds :
        /\ MicroOS_WakeupTask(id)
        /\ hist' = IF Ok(id)
                   THEN [hist EXCEPT !.slept[id] =
                            [NoSleep EXCEPT !.w = /\ Tasks[id].IsSleeping
                                                  /\ hist.slept[id].t < hist.slept[id].n]]
                   ELSE hist

SchedSuspend ==
    \E id \in SchedIds :
        /\ MicroOS_SuspendTask(id)
        /\ hist' = IF Ok(id) THEN [hist EXCEPT !.fresh[id] = NotFresh] ELSE hist

SchedDelete ==
    \E id \in SchedIds :
        /\ MicroOS_DeleteTask(id)
        /\ hist' = IF Ok(id)
                   THEN [hist EXCEPT !.fresh[id] = NotFresh, !.slept[id] = NoSleep]
                   ELSE hist

SchedTick ==
    /\ MicroOS_TickHandler
    /\ hist' = [hist EXCEPT !.slept =
                   [id \in TaskSlots |-> [@[id] EXCEPT !.t = Min(@ + 1, hist.slept[id].n)]]]

\* an invocation ends the following of a fresh task
SchedTaskStep ==
    /\ SchedulerTaskStep
    /\ hist' = IF pc' = "taskcb" THEN [hist EXCEPT !.fresh[i] = NotFresh] ELSE hist

SpecSched ==
    Init /\ [][SchedAdd \/ SchedSleep \/ SchedWakeup \/ SchedSuspend \/
               CallResumeTask(SchedIds) \/ SchedDelete \/ SchedTick \/
               Start \/ Dispatch \/ SchedTaskStep \/ CallbackReturn]_vars

\* C3: after a successful MicroOS_SleepTask(id, n), n > 0, with no wakeup,
\* add or delete of id since, the scheduler does not invoke the callback of
\* id before n tick notifications have occurred since the call, wherever the
\* call was made from.
C3_NoInvocationBeforeSleepEnds ==
    [][(/\ SchedulerTaskStep
        /\ pc' = "taskcb"
        /\ hist.slept[i].n > 0)
       => hist.slept[i].t >= hist.slept[i].n]_vars

\* C4: a task added with period P that has stayed used, running and not
\* sleeping is, when the scheduler evaluates its slot, invoked exactly when
\* the clock value read for the slot is at or after P: not on a pass below P,
\* and on the first pass at or after P.
C4_FirstFiresAtPeriod ==
    [][(/\ SchedulerTaskStep
        /\ i < MICROOS_TASK_SIZE
        /\ hist.fresh[i].on)
       => ((pc' = "taskcb") <=> (TickCount >= hist.fresh[i].P))]_vars

(***************************************************************************)
(* SpecTaskApi: main() adds, suspends, resumes, puts to sleep, wakes and   *)
(* deletes tasks of every id, one out of range included, between tick      *)
(* notifications.                                                          *)
(***************************************************************************)
SpecTaskApi ==
    Init /\ [][CallAddTask(TaskIds, TaskFns \cup {NULL}, 0..MaxPeriod) \/
               CallSuspendTask(TaskIds) \/ CallResumeTask(TaskIds) \/
               CallDeleteTask(TaskIds) \/
               CallSleepTask(TaskIds, 0..MaxPeriod) \/
               CallWakeupTask(TaskIds) \/ Tick]_vars

\* C8: MicroOS_AddTask with an id in range and a callback returns MICROOS_OK
\* whenever the slot of id is used already or some slot of the table is
\* unused, and then leaves slot id used and running with the callback, user
\* data and period given and every other slot as it was.
C8_AddTaskOkUnlessFull ==
    \A id \in TaskSlots, fn \in TaskFns, ud \in TaskData, P \in 0..MaxPeriod :
        (Tasks[id].IsUsed \/ \E k \in TaskSlots : ~Tasks[k].IsUsed) =>
            LET r == AddTask(MicroOS, id, fn, ud, P) IN
            /\ r.st = "MICROOS_OK"
            /\ r.m.Tasks[id].IsUsed /\ r.m.Tasks[id].IsRunning
            /\ r.m.Tasks[id].TaskFunction = fn /\ r.m.Tasks[id].Userdata = ud
            /\ r.m.Tasks[id].Period = P
            /\ \A k \in TaskSlots \ {id} : r.m.Tasks[k] = Tasks[k]

\* the status C9 gives for a call with id (zero is TRUE for MicroOS_SleepTask
\* with zero ticks)
C9_Status(id, zero) ==
    IF BadId(id) \/ zero THEN "MICROOS_INVALID_PARAM"
    ELSE IF ~Tasks[id].IsUsed THEN "MICROOS_NOT_INITIALIZED"
    ELSE "MICROOS_OK"

\* C9: MicroOS_SuspendTask, MicroOS_ResumeTask, MicroOS_DeleteTask,
\* MicroOS_SleepTask and MicroOS_WakeupTask return MICROOS_INVALID_PARAM for
\* an id out of range (MicroOS_SleepTask also for zero ticks),
\* MICROOS_NOT_INITIALIZED for an id in range whose slot is unused, and
\* MICROOS_OK otherwise.
C9_TaskCallStatus ==
    \A id \in TaskIds :
        /\ SuspendTask(MicroOS, id).st = C9_Status(id, FALSE)
        /\ ResumeTask(MicroOS, id).st = C9_Status(id, FALSE)
        /\ DeleteTask(MicroOS, id).st = C9_Status(id, FALSE)
        /\ WakeupTask(MicroOS, id).st = C9_Status(id, FALSE)
        /\ \A Ticks \in 0..MaxPeriod :
              SleepTask(MicroOS, id, Ticks).st = C9_Status(id, Ticks = 0)

(***************************************************************************)
(* SpecEventPool: the main context registers, triggers, suspends and       *)
(* deletes events, filling and emptying the event pool.                    *)
(***************************************************************************)
\* the ids of the active records of the pool e
ActiveEventIds(e) == {e.pool[ActiveEvents(e)[k]].id : k \in 1..Len(ActiveEvents(e))}

EvPoolRegister ==
    \E id \in EventIds, fn \in EventFns \cup {NULL} :
        /\ MicroOS_RegisterEvent(id, fn, 0)
        /\ hist' = [hist EXCEPT !.reg =
                       IF ret' = "MICROOS_BUSY" THEN "busy"
                       ELSE IF /\ hist.reg = "busy" /\ ret' = "MICROOS_OK"
                               /\ id \in ActiveEventIds(OSEvent)
                       THEN "update" ELSE "none"]

EvPoolTrigger ==
    /\ MicroOS_TriggerEvent(0)
    /\ hist' = [hist EXCEPT !.reg = "none"]

EvPoolSuspend ==
    /\ MicroOS_SuspendEvent(0)
    /\ hist' = [hist EXCEPT !.reg = "none"]

EvPoolDelete ==
    \E id \in EventIds :
        /\ MicroOS_DeleteEvent(id)
        /\ hist' = [hist EXCEPT !.reg = "none"]

SpecEventPool ==
    Init /\ [][EvPoolRegister \/ EvPoolTrigger \/ EvPoolSuspend \/
               EvPoolDelete]_vars

\* C7: with OS_EVENT_POOLSIZE distinct ids registered, MicroOS_RegisterEvent
\* (with a handler) of a further id returns MICROOS_BUSY and changes no event
\* record; of an id that is active it returns MICROOS_OK and sets the handler,
\* the user data, the running flag and a pending count of 0 in that id's node,
\* leaving every other node and both lists (so the number of active records)
\* as they were.
C7_BusyWhenFullUpdatesInPlace ==
    Cardinality(ActiveEventIds(OSEvent)) = OS_EVENT_POOLSIZE =>
        \A fn \in EventFns, ud \in EventData :
            /\ \A id \in EventIds \ ActiveEventIds(OSEvent) :
                  /\ RegisterEvent(OSEvent, id, fn, ud).st = "MICROOS_BUSY"
                  /\ RegisterEvent(OSEvent, id, fn, ud).e = OSEvent
            /\ \A id \in ActiveEventIds(OSEvent) :
                  LET r == RegisterEvent(OSEvent, id, fn, ud)
                      q == FindEvent(OSEvent, id)
                  IN  /\ r.st = "MICROOS_OK"
                      /\ ActiveEvents(r.e) = ActiveEvents(OSEvent)
                      /\ FreeEvents(r.e) = FreeEvents(OSEvent)
                      /\ r.e.pool[q] =
                            [EventPools[q] EXCEPT !.EventFunction = fn,
                                                  !.Userdata = ud,
                                                  !.IsRunning = TRUE,
                                                  !.TriggerCount = 0]
                      /\ \A n \in EventNodes \ {q} : r.e.pool[n] = EventPools[n]

\* at a full pool a further id was refused and then an active id registered
\* again, with success
C7_Witness ==
    /\ Cardinality(ActiveEventIds(OSEvent)) = OS_EVENT_POOLSIZE
    /\ hist.reg = "update"
    /\ ret = "MICROOS_OK"

(***************************************************************************)
(* SpecEvent: main() registers, triggers, suspends, resumes and deletes    *)
(* events and starts the scheduler; every handler the dispatch invokes may *)
(* make the same calls before it returns.                                  *)
(***************************************************************************)
\* the handlers main() and the handlers register here (NULL is no handler)
BurstFns == {1, NULL}

EvRegister ==
    \E id \in EventIds, fn \in BurstFns :
        /\ MicroOS_RegisterEvent(id, fn, 0)
        /\ hist' = [hist EXCEPT !.burst[id] =
                       IF ret' = "MICROOS_OK" /\ pc = "main"
                       THEN [ph |-> "trig", n |-> 0, k |-> 0, inv |-> 0]
                       ELSE NoBurst]

EvTrigger ==
    \E id \in EventIds :
        /\ MicroOS_TriggerEvent(id)
        /\ hist' = [hist EXCEPT !.burst[id] =
                       IF ret' = "MICROOS_OK" /\ @.ph = "trig" /\ @.n < TrigWrap
                       THEN [@ EXCEPT !.n = @ + 1] ELSE NoBurst]

EvDelete ==
    \E id \in EventIds :
        /\ MicroOS_DeleteEvent(id)
        /\ hist' = [hist EXCEPT !.burst[id] = NoBurst]

EvSuspend ==
    \E id \in EventIds :
        /\ MicroOS_SuspendEvent(id)
        /\ hist' = [hist EXCEPT !.burst[id] = NoBurst]

EvResume ==
    \E id \in EventIds :
        /\ MicroOS_ResumeEvent(id)
        /\ hist' = [hist EXCEPT !.burst[id] = NoBurst]

EvStart ==
    /\ MicroOS_StartScheduler
    /\ hist' = [hist EXCEPT !.burst =
                   [id \in EventIds |->
                      IF @[id].ph = "trig" THEN [@[id] EXCEPT !.ph = "drain"]
                      ELSE @[id]]]

\* a dispatch step: an invocation counts for the id of the node invoked, the
\* end of the loop completes a pass
EvDispatch ==
    /\ MicroOS_DispatchAllEvents
    /\ hist' = [hist EXCEPT !.burst =
                   [id \in EventIds |->
                      LET b == hist.burst[id] IN
                      IF b.ph # "drain" THEN b
                      ELSE IF pc' = "evhandler" /\ CurrentEventId' = id
                      THEN [b EXCEPT !.inv = Min(b.inv + 1, TrigWrap)]
                      ELSE IF pc' = "tasks"
                      THEN [b EXCEPT !.k = Min(b.k + 1, b.n + 1)]
                      ELSE b]]

SpecEvent ==
    Init /\ [][EvRegister \/ EvTrigger \/ EvDelete \/ EvSuspend \/
               EvResume \/ EvStart \/ EvDispatch \/ HandlerReturn \/ TaskStep]_vars

\* the pending count of the active record of id (0 when there is none)
Pending(id) ==
    IF FindEvent(OSEvent, id) = NULL THEN 0
    ELSE EventPools[FindEvent(OSEvent, id)].TriggerCount

\* C1: N successful triggers of a registered, running event with no dispatch
\* pass in between leave a pending count of N, and each of the next N passes
\* invokes its handler exactly once, no later pass does.  (Stated for the
\* bursts the pending counter can hold, N < TrigWrap.)
C1_BurstDrainsOnePerPass ==
    \A id \in EventIds :
        LET b == hist.burst[id] IN
        b.n < TrigWrap =>
            /\ b.ph = "trig" => Pending(id) = b.n
            /\ b.ph = "drain" =>
                  IF pc \in {"dispatch", "evhandler"}
                  THEN b.inv \in {Min(b.k, b.n), Min(b.k + 1, b.n)}
                  ELSE b.inv = Min(b.k, b.n)

(***************************************************************************)
(* SpecInit: main() adds tasks, starts delays, registers and triggers      *)
(* events between tick notifications, and calls MicroOS_Init again.        *)
(***************************************************************************)
SpecInit ==
    Init /\ [][CallAddTask({0}, TaskFns, {1}) \/ CallOSdelay({0}, {1}) \/
               CallRegisterEvent(EventIds, {1}) \/ CallTriggerEvent({0}) \/
               Tick \/ InitAgain]_vars

\* C11: when MicroOS_Init returns, the clock is 0, no task slot is used, no
\* delay record and no event record is active, and every node of both pools
\* is on its free list.
C11_InitResetsAll ==
    [][MicroOS_Init =>
          /\ TickCount' = 0
          /\ \A k \in TaskSlots : ~Tasks'[k].IsUsed
          /\ active_delay' = NULL
          /\ active_event' = NULL
          /\ Len(Walk(delay_pool', free_delay', OS_DELAY_POOLSIZE + 1)) = OS_DELAY_POOLSIZE
          /\ Len(Walk(EventPools', free_event', OS_EVENT_POOLSIZE + 1)) = OS_EVENT_POOLSIZE]_vars

(***************************************************************************)
(* SpecAddDelete: main() adds, suspends, puts to sleep and deletes the     *)
(* tasks of two ids between tick notifications.                            *)
(***************************************************************************)
\* the two ids the calls of main() and of the callbacks are made with
PairIds == {0, 1}

PairAdd ==
    \E id \in PairIds, ud \in TaskData :
        /\ MicroOS_AddTask(id, 1, ud, 1)
        /\ hist' = [hist EXCEPT !.pair =
                       IF ret' = "MICROOS_OK" THEN [op |-> "add", id |-> id]
                       ELSE NoPair]

PairDelete ==
    \E id \in PairIds :
        /\ MicroOS_DeleteTask(id)
        /\ hist' = [hist EXCEPT !.pair =
                       IF hist.pair = [op |-> "add", id |-> id]
                       THEN [op |-> "adddel", id |-> id] ELSE NoPair]

PairSuspend ==
    \E id \in PairIds :
        MicroOS_SuspendTask(id) /\ hist' = [hist EXCEPT !.pair = NoPair]

PairSleep ==
    \E id \in PairIds :
        MicroOS_SleepTask(id, 1) /\ hist' = [hist EXCEPT !.pair = NoPair]

PairTick == MicroOS_TickHandler /\ hist' = [hist EXCEPT !.pair = NoPair]

SpecAddDelete ==
    Init /\ [][PairAdd \/ PairDelete \/ PairSuspend \/ PairSleep \/ PairTick]_vars

\* C12: in every state and for every id in range, MicroOS_AddTask(id, ..)
\* followed at once by MicroOS_DeleteTask(id) leaves slot id unused, not
\* running, not sleeping, with sleep ticks, period and last-run tick 0 and no
\* callback and user data, whether the add succeeded or not.
C12_AddThenDeleteZeroesSlot ==
    \A id \in TaskSlots, fn \in TaskFns, ud \in TaskData, P \in 0..MaxPeriod :
        LET t == DeleteTask(AddTask(MicroOS, id, fn, ud, P).m, id).m.Tasks[id] IN
        /\ ~t.IsUsed /\ ~t.IsRunning /\ ~t.IsSleeping
        /\ t.SleepTicks = 0 /\ t.Period = 0 /\ t.LastRunTime = 0
        /\ t.TaskFunction = NULL /\ t.Userdata = NULL

\* a task was added with success and deleted at once, and its slot is unused
C12_Witness ==
    /\ hist.pair.op = "adddel"
    /\ ret = "MICROOS_OK"
    /\ ~Tasks[hist.pair.id].IsUsed

(***************************************************************************)
(* SpecRefuse: main() makes calls with good and with bad arguments (an id  *)
(* out of range, no callback, zero ticks, an event that is not registered, *)
(* one event more than the pool holds).                                    *)
(***************************************************************************)
SpecRefuse ==
    Init /\ [][CallAddTask(SchedIds, TaskFns \cup {NULL}, {1}) \/
               CallSleepTask(SchedIds, {0, 1}) \/ CallDeleteTask({0}) \/
               CallOSdelay(TimerIds, {1}) \/
               CallRegisterEvent(EventIds, BurstFns) \/ CallTriggerEvent({0})]_vars

\* C13: a call that returns a status other than MICROOS_OK leaves the kernel
\* as it was: the result of every task call, delay call and event call, for
\* every argument, either is MICROOS_OK or comes with the unchanged object
\* (task table, task counter and clock; delay pool; event pool), and no call
\* touches another object than its own.
C13_RefusedCallsChangeNothing ==
    /\ \A id \in TaskIds :
          /\ \A fn \in TaskFns \cup {NULL}, ud \in TaskData, P \in 0..MaxPeriod :
                LET r == AddTask(MicroOS, id, fn, ud, P) IN
                r.st # "MICROOS_OK" => r.m = MicroOS
          /\ \A Ticks \in 0..MaxPeriod :
                LET r == SleepTask(MicroOS, id, Ticks) IN
                r.st # "MICROOS_OK" => r.m = MicroOS
          /\ \A r \in {SuspendTask(MicroOS, id), ResumeTask(MicroOS, id),
                         DeleteTask(MicroOS, id), WakeupTask(MicroOS, id)} :
                r.st # "MICROOS_OK" => r.m = MicroOS
    /\ \A id \in DelayIds, Ticks \in 0..MaxDelay :
          LET r == OSdelay_Add(OSdelay, id, Ticks) IN
          r.st # "MICROOS_OK" => r.d = OSdelay
    /\ \A id \in EventIds :
          /\ \A fn \in EventFns \cup {NULL}, ud \in EventData :
                LET r == RegisterEvent(OSEvent, id, fn, ud) IN
                r.st # "MICROOS_OK" => r.e = OSEvent
          /\ \A r \in {TriggerEvent(OSEvent, id), SetEventRunning(OSEvent, id, FALSE),
                         SetEventRunning(OSEvent, id, TRUE)} :
                r.st # "MICROOS_OK" => r.e = OSEvent

\* with a task added and the event pool full, MicroOS_RegisterEvent of a
\* further id has just been refused
C13_Witness ==
    /\ ret = "MICROOS_BUSY"
    /\ free_event = NULL
    /\ \E k \in TaskSlots : Tasks[k].IsUsed

(***************************************************************************)
(* SpecPass: two tasks and an event; main(), the callbacks and the handler *)
(* add and suspend the tasks, register and trigger the event, while the    *)
(* scheduler runs pass after pass and tick notifications arrive.           *)
(***************************************************************************)
PassDispatch ==
    /\ MicroOS_DispatchAllEvents
    /\ hist' = IF pc' = "tasks"
               THEN [hist EXCEPT !.pass.disp = Min(@ + 1, 2)] ELSE hist

PassTaskStep ==
    /\ SchedulerTaskStep
    /\ hist' = IF pc' = "dispatch" THEN [hist EXCEPT !.pass = NoPass]
               ELSE [hist EXCEPT !.pass.ev = Min(@ + 1, MICROOS_TASK_SIZE),
                                 !.pass.inv = IF pc' = "taskcb" THEN @ \cup {i} ELSE @]

SpecPass ==
    Init /\ [][CallAddTask(PairIds, TaskFns, {0, 1}) \/
               CallSuspendTask(PairIds) \/ CallRegisterEvent({0}, {1}) \/
               CallTriggerEvent({0}) \/ Tick \/ Start \/ PassDispatch \/
               HandlerReturn \/ PassTaskStep \/ CallbackReturn]_vars

\* C14: in every scheduler pass the dispatch step is complete, once, before a
\* task slot is evaluated and is not taken up again before the pass ends;
\* the slots are evaluated in ascending order, each once; a callback starts
\* only when no other callback runs and every callback invoked earlier in
\* the pass belongs to a lower id.
C14_DispatchThenTasksAscending ==
    [][/\ (MicroOS_DispatchAllEvents \/ EventHandlerReturn) =>
             hist.pass = NoPass
       /\ SchedulerTaskStep =>
             /\ hist.pass.disp = 1
             /\ i = hist.pass.ev \/ (i >= MICROOS_TASK_SIZE /\ pc' = "dispatch")
             /\ \A k \in hist.pass.inv : k < i
       /\ pc' = "taskcb" => (SchedulerTaskStep /\ pc = "tasks") \/ pc = "taskcb"]_vars

\* the callback of the higher task starts after the event was dispatched and
\* the lower task was invoked in the same pass
C14_Witness ==
    /\ pc = "taskcb"
    /\ hist.pass.disp = 1
    /\ hist.pass.inv = {0, 1}
    /\ i = 1
    /\ active_event # NULL

(***************************************************************************)
(* SpecGate: two tasks of period 0 and an event; main(), the callbacks and *)
(* the handler add the tasks and suspend, resume, put to sleep and delete  *)
(* the higher one while the scheduler runs and tick notifications arrive.  *)
(***************************************************************************)
GateAdd ==
    \E id \in PairIds :
        /\ MicroOS_AddTask(id, 1, 0, 0)
        /\ hist' = IF Ok(id) THEN [hist EXCEPT !.off[id] = "on"] ELSE hist

GateSuspend ==
    /\ MicroOS_SuspendTask(1)
    /\ hist' = IF Ok(1) /\ hist.off[1] = "on"
               THEN [hist EXCEPT !.off[1] = "suspended"] ELSE hist

GateResume ==
    /\ MicroOS_ResumeTask(1)
    /\ hist' = IF Ok(1) /\ hist.off[1] = "suspended"
               THEN [hist EXCEPT !.off[1] = "on"] ELSE hist

GateDelete ==
    /\ MicroOS_DeleteTask(1)
    /\ hist' = IF Ok(1) THEN [hist EXCEPT !.off[1] = "deleted"] ELSE hist

SpecGate ==
    Init /\ [][GateAdd \/ GateSuspend \/ GateResume \/ GateDelete \/
               CallSleepTask({1}, {1}) \/ CallRegisterEvent({0}, {1}) \/
               CallTriggerEvent({0}) \/ Tick \/ Start \/ PassDispatch \/
               HandlerReturn \/ PassTaskStep \/ CallbackReturn]_vars

\* C15: the scheduler invokes the callback of a slot only when the slot is
\* used and running and, after the sleep-expiry check, not sleeping at its
\* due-check; a task that was suspended is not invoked before it is resumed
\* (or added again), a task that was deleted not before it is added again,
\* whoever made the call and whenever in the pass.
C15_InvokedOnlyWhenEligible ==
    [][(SchedulerTaskStep /\ pc' = "taskcb") =>
          /\ Tasks[i].IsUsed /\ Tasks[i].IsRunning
          /\ ~Tasks'[i].IsSleeping
          /\ Tasks[i].IsSleeping => Elapsed(TickCount, Tasks[i].LastRunTime) >= Tasks[i].SleepTicks
          /\ hist.off[i] = "on"]_vars

\* the scheduler has passed over task 1, which is due but suspended, in a
\* pass in which the callback of task 0 was invoked
C15_Witness ==
    /\ pc = "tasks"
    /\ i > 1
    /\ hist.pass.inv = {0}
    /\ hist.off[1] = "suspended"
    /\ Tasks[1].IsUsed /\ ~Tasks[1].IsSleeping

\* C16: apart from MicroOS_Init, only the tick notification writes the clock
\* and the remaining ticks of a delay record: a step that changes TickCount,
\* or the ms of a record that is active for the same id before and after it,
\* is a step of MicroOS_TickHandler.
C16_TickIsOnlyWriter ==
    [][(/\ ~MicroOS_Init
        /\ \/ TickCount' # TickCount
           \/ \E n \in DelayNodes :
                 /\ \E k \in 1..Len(ActiveDelays(OSdelay)) : ActiveDelays(OSdelay)[k] = n
                 /\ \E k \in 1..Len(ActiveDelays(OSdelay')) : ActiveDelays(OSdelay')[k] = n
                 /\ delay_pool'[n].id = delay_pool[n].id
                 /\ delay_pool'[n].ms # delay_pool[n].ms)
       => MicroOS_TickHandler]_vars

(***************************************************************************)
(* SpecUnique: the main context starts and removes delays and registers    *)
(* and deletes events, of two ids each, between tick notifications and     *)
(* calls of MicroOS_Init.                                                  *)
(***************************************************************************)
UqOSdelay ==
    \E id \in PairIds :
        /\ MicroOS_OSdelay(id, 1)
        /\ hist' = [hist EXCEPT !.dup =
                       IF FindDelay(OSdelay, id) # NULL THEN @ \cup {"delay"} ELSE @]

UqRegister ==
    \E id \in PairIds :
        /\ MicroOS_RegisterEvent(id, 1, 0)
        /\ hist' = [hist EXCEPT !.dup =
                       IF FindEvent(OSEvent, id) # NULL THEN @ \cup {"event"} ELSE @]

SpecUnique ==
    Init /\ [][UqOSdelay \/ CallOSdelay_Remove(PairIds) \/ UqRegister \/
               CallDeleteEvent(PairIds) \/ Tick \/ InitAgain]_vars

\* no two positions of the walk w of pool hold the same id
OnePerId(pool, w) ==
    \A j, k \in 1..Len(w) : pool[w[j]].id = pool[w[k]].id => j = k

\* C17: the active list of the delay pool holds at most one record per id and
\* so does the active list of the event pool; MicroOS_OSdelay and
\* MicroOS_RegisterEvent of an id that is active leave both lists of their
\* pool as they are (no second record is allocated).
C17_OneActiveRecordPerId ==
    /\ OnePerId(delay_pool, ActiveDelays(OSdelay))
    /\ OnePerId(EventPools, ActiveEvents(OSEvent))
    /\ \A id \in DelayIds, Ticks \in 0..MaxDelay :
          LET r == OSdelay_Add(OSdelay, id, Ticks) IN
          /\ OnePerId(r.d.pool, ActiveDelays(r.d))
          /\ FindDelay(OSdelay, id) # NULL =>
                /\ ActiveDelays(r.d) = ActiveDelays(OSdelay)
                /\ FreeDelays(r.d) = FreeDelays(OSdelay)
    /\ \A id \in EventIds, fn \in EventFns, ud \in EventData :
          LET r == RegisterEvent(OSEvent, id, fn, ud) IN
          /\ OnePerId(r.e.pool, ActiveEvents(r.e))
          /\ FindEvent(OSEvent, id) # NULL =>
                /\ ActiveEvents(r.e) = ActiveEvents(OSEvent)
                /\ FreeEvents(r.e) = FreeEvents(OSEvent)

\* both pools have a free node left after an active id was added again and an
\* active id was registered again
C17_Witness ==
    /\ hist.dup = {"delay", "event"}
    /\ ret = "MICROOS_OK"
    /\ active_delay # NULL /\ free_delay # NULL
    /\ active_event # NULL /\ free_event # NULL

(***************************************************************************)
(* SpecSuspend: main() registers, triggers, suspends, resumes and deletes  *)
(* two events and starts the scheduler; every handler the dispatch invokes *)
(* may make the same calls before it returns.                              *)
(***************************************************************************)
SuRegister ==
    \E id \in PairIds :
        /\ MicroOS_RegisterEvent(id, 1, 0)
        /\ hist' = [hist EXCEPT !.susp[id] = NoSusp]

SuSuspend ==
    \E id \in PairIds :
        /\ MicroOS_SuspendEvent(id)
        /\ hist' = [hist EXCEPT !.susp[id] =
                       IF ret' # "MICROOS_OK" \/ (pc = "evhandler" /\ CurrentEventId = id)
                       THEN NoSusp
                       ELSE IF @.on THEN @
                       ELSE [on |-> TRUE, hit |-> FALSE,
                             c |-> EventPools[FindEvent(OSEvent, id)].TriggerCount]]

SuResume ==
    \E id \in PairIds :
        /\ MicroOS_ResumeEvent(id)
        /\ hist' = [hist EXCEPT !.susp[id] = NoSusp]

SuDelete ==
    \E id \in PairIds :
        /\ MicroOS_DeleteEvent(id)
        /\ hist' = [hist EXCEPT !.susp[id] = NoSusp]

SuDispatch ==
    /\ MicroOS_DispatchAllEvents
    /\ hist' = IF pc' = "evhandler" /\ hist.susp[CurrentEventId'].on
               THEN [hist EXCEPT !.susp[CurrentEventId'].hit = TRUE]
               ELSE hist

SpecSuspend ==
    Init /\ [][SuRegister \/ CallTriggerEvent(PairIds) \/ SuSuspend \/
               SuResume \/ SuDelete \/ Start \/ SuDispatch \/
               HandlerReturn \/ TaskStep]_vars

\* C18: MicroOS_TriggerEvent(id) returns MICROOS_OK and adds one to the pending
\* count exactly when an active record of id is used and running, otherwise it
\* returns MICROOS_ERROR and changes no pending count; the handler of a
\* suspended event is never invoked by a dispatch pass and its pending count
\* stays as it was until the event is resumed.
C18_TriggerNeedsRunningSuspendedKept ==
    /\ \A id \in EventIds :
           LET r == TriggerEvent(OSEvent, id)
               q == FindEvent(OSEvent, id)
           IN  IF q # NULL /\ EventPools[q].IsUsed /\ EventPools[q].IsRunning
               THEN /\ r.st = "MICROOS_OK"
                    /\ r.e = [OSEvent EXCEPT !.pool[q].TriggerCount = (@ + 1) % TrigWrap]
               ELSE /\ r.st = "MICROOS_ERROR"
                    /\ r.e = OSEvent
    /\ \A id \in PairIds :
           hist.susp[id].on =>
               /\ ~hist.susp[id].hit
               /\ FindEvent(OSEvent, id) # NULL
               /\ ~EventPools[FindEvent(OSEvent, id)].IsRunning
               /\ Pending(id) = hist.susp[id].c

(***************************************************************************)
(* SpecSpin: main() adds a task and starts the scheduler; main() and the   *)
(* task's callback call MicroOS_delay, which holds the main context (and   *)
(* with it the scheduler) in its loop while tick notifications arrive.     *)
(* SpecSpinFair adds what the execution guarantees: the tick interrupt     *)
(* keeps arriving, the scheduler keeps running, and the loop of            *)
(* MicroOS_delay, which the processor goes round many times between two    *)
(* tick notifications, reads every value the clock takes, so it does not   *)
(* miss the values at which its test fails for ever (strong fairness).     *)
(***************************************************************************)
SpDelay ==
    \E Ticks \in 0..(TickWrap - 1) :
        /\ MicroOS_delay(Ticks)
        /\ hist' = [hist EXCEPT !.spun =
                       IF Ticks = 0 THEN NoSpun
                       ELSE [n |-> Ticks, at |-> TickCount, t |-> 0, done |-> FALSE]]

SpLoop ==
    /\ MicroOS_delay_Loop
    /\ hist' = [hist EXCEPT !.spun.done = ~spin'.busy]

SpTick ==
    /\ MicroOS_TickHandler
    /\ hist' = [hist EXCEPT !.spun.t = IF spin.busy THEN Min(@ + 1, TickWrap) ELSE @]

SpecSpin ==
    Init /\ [][CallAddTask({0}, TaskFns, {1}) \/ SpDelay \/ SpLoop \/
               SpTick \/ Start \/ Dispatch \/ TaskStep \/ CallbackReturn]_vars

SpecSpinFair ==
    /\ SpecSpin
    /\ WF_vars(SpTick)
    /\ WF_vars(Dispatch \/ TaskStep \/ CallbackReturn)
    /\ SF_vars(SpLoop)

\* C19: MicroOS_delay(n) with n > 0 returns, with MICROOS_OK, only after n or
\* more tick notifications arrived since it captured the clock, whether or not
\* the counter wrapped meanwhile, and it does return while tick notifications
\* keep arriving; MicroOS_delay(0) returns MICROOS_INVALID_PARAM at once,
\* without entering the loop.
C19_DelayWaitsNTicksThenReturns ==
    /\ [][(spin.busy /\ ~spin'.busy) =>
             (ret' = "MICROOS_OK" /\ hist.spun.t >= spin.Ticks)]_vars
    /\ [][(~spin.busy /\ spin'.busy) => spin'.Ticks > 0]_vars
    /\ [][MicroOS_delay(0) => (ret' = "MICROOS_INVALID_PARAM" /\ ~spin'.busy)]_vars
    /\ (spin.busy ~> ~spin.busy)

\* a MicroOS_delay of the longest duration, called from the task's callback
\* at the last clock value before the wrap, has returned
C19_Witness ==
    /\ hist.spun.done
    /\ hist.spun.n = TickWrap - 1
    /\ hist.spun.at = TickWrap - 1
    /\ pc = "taskcb"
    /\ ret = "MICROOS_OK"

\* C20: when the callback of slot i returns, LastRunTime of the slot is the
\* clock value that was read for the slot's due-check before the callback
\* started (the clock now, less the tick notifications that arrived since that
\* reading), not the clock value at the return, whatever calls the callback
\* made.  Checked in SpecWrap, where the callback may add, delete, suspend,
\* resume, put to sleep and wake its own task.
C20_LastRunTimeIsClockReadBeforeCallback ==
    [][(TaskReturn /\ hist.read < TickWrap)
       => Tasks'[i].LastRunTime = (TickCount - hist.read) % TickWrap]_vars

\* the callback of slot 0 has returned; it had put its task to sleep, and tick
\* notifications arrived between the reading of the clock and the return
C20_Witness ==
    /\ pc = "tasks" /\ i = 1 /\ CurrentTaskId = 0
    /\ hist.read \in 1..(TickWrap - 1)
    /\ hist.since[0] = hist.read
    /\ Tasks[0].IsUsed /\ Tasks[0].IsSleeping
    /\ Tasks[0].LastRunTime = (TickCount - hist.read) % TickWrap
    /\ Tasks[0].LastRunTime # TickCount

(***************************************************************************)
(* SpecDispatch: main() and every handler the dispatch invokes register,   *)
(* trigger and delete two events and call MicroOS_Init; main() starts the  *)
(* scheduler.                                                              *)
(***************************************************************************)
SpecDispatch ==
    Init /\ [][CallRegisterEvent(PairIds, {1}) \/ CallTriggerEvent(PairIds) \/
               CallDeleteEvent(PairIds) \/ InitAgain \/ Start \/ Dispatch \/
               HandlerReturn \/ TaskStep]_vars

\* C21: when a handler returns, the record the dispatch takes one pending
\* trigger from is the active record of the event whose handler it invoked,
\* its pending count goes down by exactly one, and the dispatch goes on from
\* it along the active list, whatever calls the handler made (triggering,
\* registering or deleting events, its own included).
C21_DispatchConsumesFromInvokedRecord ==
    [][EventHandlerReturn =>
          /\ \E k \in 1..Len(ActiveEvents(OSEvent)) : ActiveEvents(OSEvent)[k] = p
          /\ EventPools[p].id = CurrentEventId
          /\ EventPools[p].IsUsed
          /\ EventPools'[p].TriggerCount = EventPools[p].TriggerCount - 1]_vars

\* C25: the dispatch never takes a pending trigger from a record that has
\* none: the pending count never goes below zero (it never wraps), also when
\* the handler registered its own event again, deleted it or registered
\* another event.
C25_PendingCountNeverWraps ==
    [][EventHandlerReturn => EventPools[p].TriggerCount > 0]_vars

\* C26: the dispatch invokes the handler of a record only when the record is
\* on the active list, that is registered since the last MicroOS_Init and not
\* deleted since.
C26_OnlyRegisteredHandlersInvoked ==
    [][(MicroOS_DispatchAllEvents /\ pc' = "evhandler") =>
          \E k \in 1..Len(ActiveEvents(OSEvent)) : ActiveEvents(OSEvent)[k] = p]_vars

\* C22: MicroOS_DeleteTask of a slot takes one off TaskNum exactly when the
\* slot was running at the call; for a suspended or an unused slot it leaves
\* TaskNum as it was; in both cases it clears the slot.
C22_DeleteCountsRunningOnly ==
    \A id \in TaskSlots :
        LET r == DeleteTask(MicroOS, id) IN
        /\ r.st = "MICROOS_OK"
        /\ r.m.Tasks[id] = ZeroTask
        /\ \A k \in TaskSlots \ {id} : r.m.Tasks[k] = Tasks[k]
        /\ r.m.TaskNum = IF Tasks[id].IsRunning THEN (TaskNum - 1) % NumWrap
                         ELSE TaskNum

\* a suspended task was deleted: no slot is used and TaskNum still counts it
C22_Witness ==
    /\ ret = "MICROOS_OK"
    /\ TaskNum = 1
    /\ \A k \in TaskSlots : Tasks[k] = ZeroTask

\* C23: MicroOS_WakeupTask(id) on a used slot returns MICROOS_OK and leaves
\* the slot awake with a stored sleep duration of 0, however few tick
\* notifications occurred since the sleep began, and changes no other field
\* of the slot, no other slot, and neither the clock nor the task count (so
\* on a slot that is not sleeping nothing else changes); a slot woken before
\* its sleep ended is, when the scheduler next evaluates it, left as it is
\* and invoked exactly when the clock value read is at least Period past
\* LastRunTime.
C23_WakeupClearsSleepAtOnce ==
    [][/\ \A id \in TaskSlots :
              (MicroOS_WakeupTask(id) /\ Tasks[id].IsUsed) =>
                  /\ ret' = "MICROOS_OK"
                  /\ ~Tasks'[id].IsSleeping
                  /\ Tasks'[id].SleepTicks = 0
                  /\ Tasks' = [Tasks EXCEPT ![id].IsSleeping = FALSE,
                                            ![id].SleepTicks = 0]
                  /\ TickCount' = TickCount /\ TaskNum' = TaskNum
       /\ (/\ SchedulerTaskStep
           /\ i < MICROOS_TASK_SIZE
           /\ Tasks[i].IsUsed /\ Tasks[i].IsRunning
           /\ hist.slept[i].w) =>
              /\ Tasks' = Tasks
              /\ (pc' = "taskcb") <=>
                     (Elapsed(TickCount, Tasks[i].LastRunTime) >= Tasks[i].Period)]_vars

\* the callback of a task with a period above 0 is being invoked, the task
\* having been woken by MicroOS_WakeupTask before its sleep had lasted the
\* ticks asked for
C23_Witness ==
    /\ pc = "taskcb"
    /\ hist.slept[i].w
    /\ Tasks[i].Period > 0
    /\ ~Tasks[i].IsSleeping /\ Tasks[i].SleepTicks = 0

(***************************************************************************)
(* SpecLists: main() and the event handlers the scheduler invokes start,   *)
(* refresh and remove delays and register and delete events, of two ids    *)
(* each, trigger the event of id 0 and call MicroOS_Init.                  *)
(***************************************************************************)
SpecLists ==
    Init /\ [][CallOSdelay(PairIds, {1}) \/ CallOSdelay_Remove(PairIds) \/
               CallRegisterEvent(PairIds, {1}) \/ CallTriggerEvent({0}) \/
               CallDeleteEvent(PairIds) \/ InitAgain \/ Start \/ Dispatch \/
               HandlerReturn \/ TaskStep]_vars

\* C24: in the delay pool and in the event pool, the walk of the free list
\* followed by the walk of the active list visits every node of the pool
\* exactly once and ends (so no node is on both lists or on none, no list has
\* a cycle, and free plus active nodes number the pool capacity), after any
\* calls of MicroOS_Init, MicroOS_OSdelay, MicroOS_OSdelay_Remove,
\* MicroOS_RegisterEvent and MicroOS_DeleteEvent from main() or from inside an
\* event handler, and any dispatch.
C24_PoolListsPartitionNodes ==
    LET df == FreeDelays(OSdelay) \o ActiveDelays(OSdelay)
        ef == FreeEvents(OSEvent) \o ActiveEvents(OSEvent)
    IN  /\ Len(df) = OS_DELAY_POOLSIZE
        /\ \A n \in DelayNodes : Cardinality({k \in 1..Len(df) : df[k] = n}) = 1
        /\ Len(ef) = OS_EVENT_POOLSIZE
        /\ \A n \in EventNodes : Cardinality({k \in 1..Len(ef) : ef[k] = n}) = 1

\* an event handler is running that has deleted the event it was invoked for
\* and registered another (the record it was invoked from is active again,
\* under another id), every delay record being active
C24_Witness ==
    /\ pc = "evhandler"
    /\ \E k \in 1..Len(ActiveEvents(OSEvent)) : ActiveEvents(OSEvent)[k] = p
    /\ EventPools[p].id # CurrentEventId
    /\ free_delay = NULL
    /\ Len(ActiveDelays(OSdelay)) = OS_DELAY_POOLSIZE

(***************************************************************************)
(* SpecRefresh: main() starts, refreshes and removes delays of two ids,    *)
(* with Ticks > 0; a tick notification may arrive between the two stores   *)
(* of a refresh.                                                           *)
(***************************************************************************)
RefreshEnter ==
    \E id \in PairIds, Ticks \in 1..MaxDelay :
        MicroOS_OSdelay_Enter(id, Ticks) /\ UNCHANGED hist

RefreshLeave == MicroOS_OSdelay_Leave /\ UNCHANGED hist

SpecRefresh ==
    Init /\ [][RefreshEnter \/ RefreshLeave \/ CallOSdelay_Remove(PairIds) \/
               Tick]_vars

\* C27: whenever the main context is outside MicroOS_OSdelay, every active
\* delay record with remaining ticks 0 has its expired flag set (the delays
\* being started and refreshed with Ticks > 0 only), also when tick
\* notifications arrived between the two stores of a refresh.
C27_RefreshSurvivesTick ==
    ~spin.busy =>
        \A k \in 1..Len(ActiveDelays(OSdelay)) :
            delay_pool[ActiveDelays(OSdelay)[k]].ms = 0 =>
                delay_pool[ActiveDelays(OSdelay)[k]].IsTimeout

(***************************************************************************)
(* SpecApart: main() and the callbacks of two tasks add task 0 (with       *)
(* period 0 or MaxPeriod) and task 1 (with period 0), and put to sleep     *)
(* (for one tick), wake, suspend and resume task 0, while tick             *)
(* notifications arrive and the counter wraps.                             *)
(***************************************************************************)
ApartAdd ==
    \E id \in PairIds, P \in {0, MaxPeriod} :
        /\ id = 1 => P = 0
        /\ MicroOS_AddTask(id, 1, 0, P)
        /\ hist' = IF Ok(id) THEN [hist EXCEPT !.seen[id] = NoSeen] ELSE hist

ApartTick ==
    /\ MicroOS_TickHandler
    /\ hist' = [hist EXCEPT !.seen =
                   [id \in TaskSlots |->
                       IF @[id].on THEN [@[id] EXCEPT !.t = Min(@ + 1, TickWrap)]
                       ELSE @[id]]]

ApartTaskStep ==
    /\ SchedulerTaskStep
    /\ hist' = IF pc' = "taskcb"
               THEN [hist EXCEPT !.seen[i] =
                        [on |-> TRUE, c |-> TickCount, t |-> 0,
                         again |-> @.on /\ @.t < TickWrap]]
               ELSE hist

SpecApart ==
    Init /\ [][ApartAdd \/ CallSleepTask({0}, {1}) \/
               CallWakeupTask({0}) \/ CallSuspendTask({0}) \/
               CallResumeTask({0}) \/ ApartTick \/ Start \/ Dispatch \/
               ApartTaskStep \/ CallbackReturn]_vars

\* C28: when the callback of a task is invoked that was invoked before and has
\* not been added again since, the clock value read for this invocation is,
\* modulo the counter width, at least Period past the clock value read for
\* the invocation before, whatever suspend, resume, sleep and wakeup calls
\* were made in between.
C28_InvocationsOnePeriodApart ==
    [][(/\ SchedulerTaskStep
        /\ pc' = "taskcb"
        /\ hist.seen[i].on)
       => Elapsed(TickCount, hist.seen[i].c) >= Tasks[i].Period]_vars

\* C28, amended: the same, for two consecutive invocations with fewer tick
\* notifications between their clock readings than the counter has values.
C28_InvocationsOnePeriodApartWithinRange ==
    [][(/\ SchedulerTaskStep
        /\ pc' = "taskcb"
        /\ hist.seen[i].on
        /\ hist.seen[i].t < TickWrap)
       => /\ Elapsed(TickCount, hist.seen[i].c) = hist.seen[i].t
          /\ hist.seen[i].t >= Tasks[i].Period]_vars

\* the callback of task 0, of a period above 0, is being invoked again with
\* fewer notifications since its last invocation than the counter has
\* values, the counter having wrapped since the clock value its due-check
\* went by
C28_Witness ==
    /\ pc = "taskcb" /\ i = 0
    /\ hist.seen[0].again /\ hist.seen[0].t = 0
    /\ Tasks[0].Period > 0
    /\ currentTime < Tasks[0].LastRunTime

(***************************************************************************)
(* SpecLiveFair: main() and the callbacks add and put to sleep task 0 and  *)
(* register, trigger and delete the event of id 0; tick notifications keep *)
(* arriving, the scheduler, once started, keeps taking its steps, and      *)
(* every handler and callback returns.                                     *)
(***************************************************************************)
LiveRegister ==
    \E id \in {0} :
        /\ MicroOS_RegisterEvent(id, 1, 0)
        /\ hist' = [hist EXCEPT !.owed = @ \ {id}]

LiveTrigger ==
    \E id \in {0} :
        /\ MicroOS_TriggerEvent(id)
        /\ hist' = [hist EXCEPT !.owed = IF ret' = "MICROOS_OK" THEN @ \cup {id} ELSE @]

LiveDelete ==
    \E id \in {0} :
        /\ MicroOS_DeleteEvent(id)
        /\ hist' = [hist EXCEPT !.owed = @ \ {id}]

LiveDispatch ==
    /\ MicroOS_DispatchAllEvents
    /\ hist' = IF pc' = "evhandler"
               THEN [hist EXCEPT !.owed = @ \ {CurrentEventId'}] ELSE hist

SpecLiveFair ==
    /\ Init
    /\ [][CallAddTask({0}, TaskFns, {1}) \/ CallSleepTask({0}, {1}) \/
          LiveRegister \/ LiveTrigger \/ LiveDelete \/ Tick \/ Start \/
          LiveDispatch \/ HandlerReturn \/ TaskStep \/ CallbackReturn]_vars
    /\ WF_vars(Tick)
    /\ WF_vars(Start \/ LiveDispatch \/ TaskStep)
    /\ WF_vars(HandlerReturn \/ CallbackReturn)

\* C29: with tick notifications arriving for ever, the scheduler taking its
\* steps for ever and every handler and callback returning, a task that from
\* some point on stays used and running (its period, at most MaxPeriod, is
\* below the counter range TickWrap) is invoked infinitely often, a used,
\* running and sleeping task is eventually awake again, and a successful
\* trigger of an event that is not registered again or deleted afterwards is
\* eventually followed by an invocation of its handler.
C29_FairProgress ==
    /\ \A id \in TaskSlots :
          (<>[](Tasks[id].IsUsed /\ Tasks[id].IsRunning)) =>
              []<>(pc = "taskcb" /\ i = id)
    /\ \A id \in TaskSlots :
          (Tasks[id].IsUsed /\ Tasks[id].IsRunning /\ Tasks[id].IsSleeping) ~>
              ~Tasks[id].IsSleeping
    /\ \A id \in EventIds : (id \in hist.owed) ~> (id \notin hist.owed)

====
